---------------------------- MODULE Spec2Model ----------------------------
(***************************************************************************)
(* Huffman coding: the encrypt program (HuffEncrypt.go) and the decrypt    *)
(* program (the second source file).  Both read book.txt, count the        *)
(* frequency of each character, build the Huffman tree and the code map;   *)
(* the first then rewrites begin.txt as a string of '0'/'1' characters     *)
(* into encrypted.txt, the second walks its own tree over encrypted.txt    *)
(* and writes decrypted.txt.                                               *)
(*                                                                         *)
(* Nodes are modelled by value: a *Node is the record of its fields, the   *)
(* children being records themselves (nodes are never mutated once built). *)
(***************************************************************************)
EXTENDS Integers, Sequences, FiniteSets, TLC

\* ------------------------------------------------------------------ bounds
\* Number of distinct runes that may occur in the files.
NumChars == 3
\* Longest book.txt, in characters.
MaxLen == 4
\* Longest begin.txt that is not book.txt itself.
MaxBegin == 2

Alphabet == 1..NumChars

\* The two programs: each is one run of its main().
Prog == {"enc", "dec"}

VARIABLES
    book,         \* content of book.txt (a sequence of runes)
    begin,        \* content of begin.txt as EncryptFile read it
    encrypted,    \* encrypted.txt: <<>> while absent, <<content>> once written
    decrypted,    \* decrypted.txt: <<>> while absent, <<content>> once written
    truncated,    \* encrypted.txt lost its last character after it was written
    pc,           \* pc[p]: position of program p in its main()
    frequencies,  \* frequencies[p]: map rune -> count
    nodes,        \* nodes[p]: the working collection of BuildHuffmanTree
    merges,       \* merges[p]: iterations of the merge loop run so far
    removed,      \* removed[p]: the (left, right) pair the last iteration took
    root,         \* root[p]: the tree BuildHuffmanTree returned
    codes,        \* codes[p]: map rune -> code
    currentNode,  \* the decoder's cursor when its loop ended
    err           \* err[p]: <<>> for nil, else <<message>> or <<message, rune>>

vars == <<book, begin, encrypted, decrypted, truncated, pc, frequencies,
          nodes, merges, removed, root, codes, currentNode, err>>

\* ------------------------------------------------------------------- nodes
\* The nil *Node.
Nil == [IsNil |-> TRUE]

\* &Node{Char: char, Freq: freq}: the other fields take their zero values.
Leaf(char, freq) ==
    [Char |-> char, Freq |-> freq, Left |-> Nil, Right |-> Nil, IsParent |-> FALSE]

\* Fault: the parent takes the weight of its left child alone.
ParentNoSum(left, right) ==
    [Char |-> 0, Freq |-> left.Freq, Left |-> left, Right |-> right, IsParent |-> TRUE]

\* &Node{Freq: left.Freq + right.Freq, Left: left, Right: right, IsParent: true}
Parent(left, right) ==
    [Char |-> 0, Freq |-> left.Freq + right.Freq, Left |-> left, Right |-> right,
     IsParent |-> TRUE]

\* Fault: the comparison reversed.
LessReversed(a, b) == a.Freq > b.Freq

\* Nodes.Less on the two elements compared.
Less(a, b) == a.Freq < b.Freq

\* The permutations of 1..n.
Perms(n) == {p \in [1..n -> 1..n] : \A i, j \in 1..n : p[i] = p[j] => i = j}

\* sort.Sort(nodes): a rearrangement of the collection in which no element is
\* Less than its predecessor.  sort.Sort is not guaranteed to be stable, so
\* elements of equal Freq may end in any order.
SortResults(s) ==
    {t \in {[i \in 1..Len(s) |-> s[p[i]]] : p \in Perms(Len(s))} :
        \A i \in 1..(Len(s) - 1) : ~Less(t[i + 1], t[i])}

\* for char, freq := range frequencies { nodes = append(nodes, &Node{...}) }:
\* Go ranges over a map in an unspecified order.
RangeOrders(freq) ==
    LET keys == DOMAIN freq
        n == Cardinality(keys)
    IN  {[i \in 1..n |-> Leaf(k[i], freq[k[i]])] :
            k \in {f \in [1..n -> keys] : \A i, j \in 1..n : f[i] = f[j] => i = j}}

\* Fault: nodes[1:], which leaves the second node in the collection.
RestKeepSecond(s, parent) == Append(SubSeq(s, 2, Len(s)), parent)

\* append(nodes[2:], parent)
Rest(s, parent) == Append(SubSeq(s, 3, Len(s)), parent)

\* --------------------------------------------------------------- frequencies
\* frequencies[char]++ on a map whose missing keys read as 0.
Incr(freq, char) ==
    IF char \in DOMAIN freq THEN [freq EXCEPT ![char] = @ + 1]
    ELSE (char :> 1) @@ freq

RECURSIVE CountFrequencies(_, _)
\* for _, char := range string(content) { frequencies[char]++ }
CountFrequencies(content, freq) ==
    IF content = <<>> THEN freq
    ELSE CountFrequencies(Tail(content), Incr(freq, Head(content)))

\* --------------------------------------------------------------------- codes
RECURSIVE BuildHuffmanCodesSameBit(_, _)
\* Fault: "0" appended on both sides.
BuildHuffmanCodesSameBit(node, code) ==
    IF node = Nil THEN <<>>
    ELSE IF ~node.IsParent THEN (node.Char :> code)
    ELSE BuildHuffmanCodesSameBit(node.Right, Append(code, "0"))
            @@ BuildHuffmanCodesSameBit(node.Left, Append(code, "0"))

RECURSIVE BuildHuffmanCodes(_, _)
\* The entries BuildHuffmanCodes(root, code, codes) writes into codes: the
\* right subtree is walked after the left one, so its writes win.
BuildHuffmanCodes(node, code) ==
    IF node = Nil THEN <<>>
    ELSE IF ~node.IsParent THEN (node.Char :> code)
    ELSE BuildHuffmanCodes(node.Right, Append(code, "1"))
            @@ BuildHuffmanCodes(node.Left, Append(code, "0"))

\* ------------------------------------------------------------------- encoder
RECURSIVE EncodeSkipUnknown(_, _, _)
\* Fault: a character without a code is skipped instead of reported.
EncodeSkipUnknown(content, cds, encryptedContent) ==
    IF content = <<>> THEN [err |-> <<>>, encryptedContent |-> encryptedContent]
    ELSE IF Head(content) \notin DOMAIN cds
         THEN EncodeSkipUnknown(Tail(content), cds, encryptedContent)
         ELSE EncodeSkipUnknown(Tail(content), cds, encryptedContent \o cds[Head(content)])

RECURSIVE Encode(_, _, _)
\* The loop of EncryptFile: the codes of the characters concatenated in stream
\* order, or the error for the first character without a code.
Encode(content, cds, encryptedContent) ==
    IF content = <<>> THEN [err |-> <<>>, encryptedContent |-> encryptedContent]
    ELSE IF Head(content) \notin DOMAIN cds
         THEN [err |-> <<"character has no associated Huffman code", Head(content)>>,
               encryptedContent |-> encryptedContent]
         ELSE Encode(Tail(content), cds, encryptedContent \o cds[Head(content)])

\* ------------------------------------------------------------------- decoder
\* Fault: the children swapped.
MoveSwapped(node, bit) == IF bit = "0" THEN node.Right ELSE node.Left

\* if bit == '0' { currentNode = currentNode.Left } else { ... .Right }
Move(node, bit) == IF bit = "0" THEN node.Left ELSE node.Right

RECURSIVE Decode(_, _, _, _)
\* The loop of DecryptFile from cursor cur.  panic: a nil cursor is
\* dereferenced (the cursor stepped below a leaf).
Decode(rt, cur, bits, decryptedContent) ==
    IF bits = <<>>
    THEN [panic |-> FALSE, currentNode |-> cur, decryptedContent |-> decryptedContent]
    ELSE IF cur = Nil
    THEN [panic |-> TRUE, currentNode |-> cur, decryptedContent |-> decryptedContent]
    ELSE LET next == Move(cur, Head(bits)) IN
         IF next = Nil
         THEN [panic |-> TRUE, currentNode |-> next, decryptedContent |-> decryptedContent]
         ELSE IF next.Left = Nil /\ next.Right = Nil
         THEN Decode(rt, rt, Tail(bits), Append(decryptedContent, next.Char))
         ELSE Decode(rt, next, Tail(bits), decryptedContent)

\* --------------------------------------------------------------------- state
\* The character streams of at most n characters.
Streams(n) == UNION {[1..k -> Alphabet] : k \in 0..n}

\* The streams whose runes are numbered in order of first appearance.  Neither
\* program compares two runes (the map is ranged over in any order and the
\* sort compares Freq alone), so every book.txt is one of these up to a
\* renaming of its runes.
Books ==
    {s \in Streams(MaxLen) :
        \A i \in 1..Len(s) : \A c \in 1..(s[i] - 1) : \E j \in 1..(i - 1) : s[j] = c}

\* begin.txt as any text: book.txt itself, or any short stream, whose
\* characters may or may not occur in book.txt.
AnyBegin == {book} \cup Streams(MaxBegin)

\* begin.txt as the beginning of book.txt, up to the whole of it.
BookBegin == {SubSeq(book, 1, k) : k \in 0..Len(book)}

Init ==
    /\ book \in Books
    /\ begin = <<>>
    /\ encrypted = <<>>
    /\ decrypted = <<>>
    /\ truncated = FALSE
    /\ pc = [p \in Prog |-> "start"]
    /\ frequencies = [p \in Prog |-> <<>>]
    /\ nodes = [p \in Prog |-> <<>>]
    /\ merges = [p \in Prog |-> 0]
    /\ removed = [p \in Prog |-> <<>>]
    /\ root = [p \in Prog |-> Nil]
    /\ codes = [p \in Prog |-> <<>>]
    /\ currentNode = Nil
    /\ err = [p \in Prog |-> <<>>]

\* The decrypt program is run once the encrypt program has succeeded.
MayRun(p) == p = "enc" \/ pc["enc"] = "done"

\* main: ioutil.ReadFile("book.txt"), log.Fatalf on failure, then the
\* frequency count (the table is then printed, which changes no state).
ReadBook(p) ==
    /\ pc[p] = "start"
    /\ MayRun(p)
    /\ \E ok \in BOOLEAN :
         IF ok
         THEN /\ frequencies' = [frequencies EXCEPT ![p] = CountFrequencies(book, <<>>)]
              /\ pc' = [pc EXCEPT ![p] = "leaves"]
              /\ err' = err
         ELSE /\ pc' = [pc EXCEPT ![p] = "fatal"]
              /\ err' = [err EXCEPT ![p] = <<"Error reading the file">>]
              /\ frequencies' = frequencies
    /\ UNCHANGED <<book, begin, encrypted, decrypted, truncated, nodes, merges,
                   removed, root, codes, currentNode>>

\* BuildHuffmanTree up to its loop: one leaf per table entry, then sort.Sort.
MakeLeaves(p) ==
    /\ pc[p] = "leaves"
    /\ \E order \in RangeOrders(frequencies[p]) :
         \E sorted \in SortResults(order) :
            nodes' = [nodes EXCEPT ![p] = sorted]
    /\ pc' = [pc EXCEPT ![p] = "loop"]
    /\ UNCHANGED <<book, begin, encrypted, decrypted, truncated, frequencies,
                   merges, removed, root, codes, currentNode, err>>

\* One iteration of `for len(nodes) > 1`.
Merge(p) ==
    /\ pc[p] = "loop"
    /\ Len(nodes[p]) > 1
    /\ LET left == nodes[p][1]
           right == nodes[p][2]
           parent == Parent(left, right)
       IN  /\ \E sorted \in SortResults(Rest(nodes[p], parent)) :
                 nodes' = [nodes EXCEPT ![p] = sorted]
           /\ removed' = [removed EXCEPT ![p] = <<left, right>>]
    /\ merges' = [merges EXCEPT ![p] = @ + 1]
    /\ UNCHANGED <<book, begin, encrypted, decrypted, truncated, pc, frequencies,
                   root, codes, currentNode, err>>

\* return nodes[0]: an index out of range panic on an empty collection.
ReturnRoot(p) ==
    /\ pc[p] = "loop"
    /\ Len(nodes[p]) <= 1
    /\ IF Len(nodes[p]) = 0
       THEN /\ pc' = [pc EXCEPT ![p] = "panic"]
            /\ root' = root
       ELSE /\ root' = [root EXCEPT ![p] = nodes[p][1]]
            /\ pc' = [pc EXCEPT ![p] = "codes"]
    /\ UNCHANGED <<book, begin, encrypted, decrypted, truncated, frequencies,
                   nodes, merges, removed, codes, currentNode, err>>

\* main: codes := make(map[rune]string); BuildHuffmanCodes(root, "", codes)
\* (the codes are then printed).
BuildCodes(p) ==
    /\ pc[p] = "codes"
    /\ codes' = [codes EXCEPT ![p] = BuildHuffmanCodes(root[p], <<>>)]
    /\ pc' = [pc EXCEPT ![p] = "file"]
    /\ UNCHANGED <<book, begin, encrypted, decrypted, truncated, frequencies,
                   nodes, merges, removed, root, currentNode, err>>

\* main: EncryptFile("begin.txt", "encrypted.txt", codes), log.Fatalf on error.
\* inputs: the contents begin.txt may have.
EncryptFile(inputs) ==
    /\ pc["enc"] = "file"
    /\ \E readOk, writeOk \in BOOLEAN : \E content \in inputs :
         LET res == Encode(content, codes["enc"], <<>>) IN
         /\ begin' = IF readOk THEN content ELSE begin
         /\ IF ~readOk
            THEN /\ err' = [err EXCEPT !["enc"] = <<"error reading the original file">>]
                 /\ pc' = [pc EXCEPT !["enc"] = "fatal"]
                 /\ encrypted' = encrypted
            ELSE IF res.err # <<>>
            THEN /\ err' = [err EXCEPT !["enc"] = res.err]
                 /\ pc' = [pc EXCEPT !["enc"] = "fatal"]
                 /\ encrypted' = encrypted
            ELSE IF ~writeOk
            THEN /\ err' = [err EXCEPT !["enc"] = <<"error writing the encrypted file">>]
                 /\ pc' = [pc EXCEPT !["enc"] = "fatal"]
                 /\ encrypted' = encrypted
            ELSE /\ encrypted' = <<res.encryptedContent>>
                 /\ pc' = [pc EXCEPT !["enc"] = "done"]
                 /\ err' = err
    /\ UNCHANGED <<book, decrypted, truncated, frequencies, nodes, merges,
                   removed, root, codes, currentNode>>

\* encrypted.txt loses its last character before DecryptFile reads it.
Truncate ==
    /\ pc["enc"] = "done"
    /\ pc["dec"] = "file"
    /\ ~truncated
    /\ encrypted # <<>>
    /\ Len(encrypted[1]) > 0
    /\ encrypted' = <<SubSeq(encrypted[1], 1, Len(encrypted[1]) - 1)>>
    /\ truncated' = TRUE
    /\ UNCHANGED <<book, begin, decrypted, pc, frequencies, nodes, merges,
                   removed, root, codes, currentNode, err>>

\* main: DecryptFile("encrypted.txt", "decrypted.txt", root), log.Fatalf on error.
DecryptFile ==
    /\ pc["dec"] = "file"
    /\ \E readOk, writeOk \in BOOLEAN :
         IF ~readOk \/ encrypted = <<>>
         THEN /\ err' = [err EXCEPT !["dec"] = <<"error reading the encrypted file">>]
              /\ pc' = [pc EXCEPT !["dec"] = "fatal"]
              /\ UNCHANGED <<decrypted, currentNode>>
         ELSE LET res == Decode(root["dec"], root["dec"], encrypted[1], <<>>) IN
              IF res.panic
              THEN /\ pc' = [pc EXCEPT !["dec"] = "panic"]
                   /\ currentNode' = res.currentNode
                   /\ UNCHANGED <<decrypted, err>>
              ELSE IF ~writeOk
              THEN /\ err' = [err EXCEPT !["dec"] = <<"error writing the decrypted file">>]
                   /\ pc' = [pc EXCEPT !["dec"] = "fatal"]
                   /\ currentNode' = res.currentNode
                   /\ decrypted' = decrypted
              ELSE /\ decrypted' = <<res.decryptedContent>>
                   /\ currentNode' = res.currentNode
                   /\ pc' = [pc EXCEPT !["dec"] = "done"]
                   /\ err' = err
    /\ UNCHANGED <<book, begin, encrypted, truncated, frequencies, nodes, merges,
                   removed, root, codes>>

Next ==
    \/ \E p \in Prog : ReadBook(p)
    \/ \E p \in Prog : MakeLeaves(p)
    \/ \E p \in Prog : Merge(p)
    \/ \E p \in Prog : ReturnRoot(p)
    \/ \E p \in Prog : BuildCodes(p)
    \/ EncryptFile(BookBegin)
    \/ Truncate
    \/ DecryptFile

\* The encrypt program, then the decrypt program on its output.
Spec == Init /\ [][Next]_vars

NextEncrypt ==
    \/ ReadBook("enc")
    \/ MakeLeaves("enc")
    \/ Merge("enc")
    \/ ReturnRoot("enc")
    \/ BuildCodes("enc")
    \/ EncryptFile(AnyBegin)

\* The encrypt program alone, on any begin.txt.
SpecEncrypt == Init /\ [][NextEncrypt]_vars

\* ================================================================ properties
RECURSIVE LeafChars(_)
\* The characters of the leaves (the nodes that are not IsParent), left to right.
LeafChars(t) ==
    IF t = Nil THEN <<>>
    ELSE IF ~t.IsParent THEN <<t.Char>>
    ELSE LeafChars(t.Left) \o LeafChars(t.Right)

RECURSIVE InternalNodes(_)
\* The number of IsParent nodes of a tree.
InternalNodes(t) ==
    IF t = Nil \/ ~t.IsParent THEN 0
    ELSE 1 + InternalNodes(t.Left) + InternalNodes(t.Right)

RECURSIVE WeightsAdd(_)
\* Every internal node weighs what its two children weigh together.
WeightsAdd(t) ==
    \/ t = Nil
    \/ ~t.IsParent
    \/ /\ t.Left # Nil /\ t.Right # Nil
       /\ t.Freq = t.Left.Freq + t.Right.Freq
       /\ WeightsAdd(t.Left) /\ WeightsAdd(t.Right)

RECURSIVE LeftLighter(_)
\* Left.Freq <= Right.Freq at every internal node.
LeftLighter(t) ==
    \/ t = Nil
    \/ ~t.IsParent
    \/ /\ t.Left.Freq <= t.Right.Freq
       /\ LeftLighter(t.Left) /\ LeftLighter(t.Right)

\* The sum of the counts of a frequency table.
Total(freq) ==
    LET S[c \in 0..NumChars] ==
            IF c = 0 THEN 0
            ELSE S[c - 1] + (IF c \in DOMAIN freq THEN freq[c] ELSE 0)
    IN  S[NumChars]

\* The sum of the weights of a collection of nodes.
SumFreq(s) ==
    LET S[i \in 0..Len(s)] == IF i = 0 THEN 0 ELSE S[i - 1] + s[i].Freq
    IN  S[Len(s)]

Distinct(p) == Cardinality(DOMAIN frequencies[p])

\* BuildHuffmanTree has returned a root in program p.
Returned(p) == root[p] # Nil

\* The code map of program p is complete.
CodesBuilt(p) == Returned(p) /\ pc[p] # "codes"

IsPrefix(a, b) == Len(a) <= Len(b) /\ SubSeq(b, 1, Len(a)) = a

RECURSIVE Concat(_, _)
\* The codes of the characters of a stream, one after the other.
Concat(content, cds) ==
    IF content = <<>> THEN <<>>
    ELSE cds[Head(content)] \o Concat(Tail(content), cds)

\* EncryptFile has returned after reading begin.txt.
Encoded ==
    \/ pc["enc"] = "done"
    \/ /\ pc["enc"] = "fatal"
       /\ err["enc"] # <<"Error reading the file">>
       /\ err["enc"] # <<"error reading the original file">>

\* DecryptFile has returned, and neither its source nor its sink failed.
Decoded ==
    \/ pc["dec"] = "done"
    \/ /\ pc["dec"] = "fatal"
       /\ err["dec"] # <<"Error reading the file">>
       /\ err["dec"] # <<"error reading the encrypted file">>
       /\ err["dec"] # <<"error writing the decrypted file">>

\* ---------------------------------------------------------------------- C1
\* C1: round trip.  When begin.txt is book.txt, a stream of at least 2
\* distinct characters, and the decoder walks the very tree the encoder's
\* codes came from over the untouched bit-string, decrypted.txt is that stream.
RoundTrip ==
    (/\ pc["dec"] = "done"
     /\ ~truncated
     /\ begin = book
     /\ Distinct("enc") >= 2
     /\ root["dec"] = root["enc"])
    => decrypted = <<book>>

RoundTripWitness ==
    /\ pc["dec"] = "done"
    /\ ~truncated
    /\ begin = book
    /\ Distinct("enc") = NumChars
    /\ root["dec"] = root["enc"]
    /\ decrypted = <<book>>
    /\ Len(encrypted[1]) > Len(book)

\* ---------------------------------------------------------------------- C2
\* C2: prefix-free.  In the code map built from a returned tree no code of
\* one character is a prefix of (or equal to) the code of another, and every
\* distinct character of the table has its code.
PrefixFree ==
    \A p \in Prog :
        /\ \A c1, c2 \in DOMAIN codes[p] :
              c1 # c2 => ~IsPrefix(codes[p][c1], codes[p][c2])
        /\ CodesBuilt(p) => DOMAIN codes[p] = DOMAIN frequencies[p]

PrefixFreeWitness ==
    /\ CodesBuilt("enc")
    /\ Cardinality(DOMAIN codes["enc"]) = NumChars
    /\ \E c \in DOMAIN codes["enc"] : Len(codes["enc"][c]) = 1
    /\ \E c \in DOMAIN codes["enc"] : Len(codes["enc"][c]) > 1

\* ---------------------------------------------------------------------- C3
\* C3: determinism.  The two programs, run over the same book.txt, build the
\* same tree and the same code map, and would encode book.txt alike.
Deterministic ==
    (CodesBuilt("enc") /\ CodesBuilt("dec")) =>
        /\ root["enc"] = root["dec"]
        /\ codes["enc"] = codes["dec"]
        /\ Concat(book, codes["enc"]) = Concat(book, codes["dec"])

\* ---------------------------------------------------------------------- C4
\* C4: truncation is detected.  When the decoder, its files read and written
\* without failure, runs out of bits of a valid encoding that lost its last
\* bit with the cursor not at the root, it reports a truncated stream and
\* writes no decrypted.txt.
TruncationDetected ==
    (/\ Decoded
     /\ truncated
     /\ root["dec"] = root["enc"]
     /\ currentNode # root["dec"])
    => /\ pc["dec"] = "fatal"
       /\ err["dec"] = <<"truncated stream">>
       /\ decrypted = <<>>

\* ---------------------------------------------------------------------- C5
\* C5: an empty table is an error value.  BuildHuffmanTree on an empty
\* frequency table hands its caller a construction error: it neither returns
\* a root nor crashes.
EmptyTableIsError ==
    \A p \in Prog :
        (pc[p] \notin {"start", "leaves", "loop"} /\ frequencies[p] = <<>>
            /\ err[p] # <<"Error reading the file">>)
        => /\ pc[p] # "panic"
           /\ root[p] = Nil
           /\ err[p] = <<"construction error">>

\* ---------------------------------------------------------------------- C6
\* C6: an unknown symbol aborts the encoding.  Once EncryptFile has read its
\* stream: if a character of it has no code, the error names the first such
\* character and encrypted.txt is not written; if every character has a code
\* (and the sink took the write), no error is returned and encrypted.txt is
\* the codes of the stream's characters in stream order.
UnknownSymbolAborts ==
    Encoded =>
        LET unknown == {i \in 1..Len(begin) : begin[i] \notin DOMAIN codes["enc"]} IN
        IF unknown # {}
        THEN /\ pc["enc"] = "fatal"
             /\ \E i \in unknown :
                   /\ \A j \in unknown : i <= j
                   /\ err["enc"] = <<"character has no associated Huffman code", begin[i]>>
             /\ encrypted = <<>>
        ELSE \/ /\ pc["enc"] = "fatal"
                /\ err["enc"] = <<"error writing the encrypted file">>
                /\ encrypted = <<>>
             \/ /\ pc["enc"] = "done"
                /\ err["enc"] = <<>>
                /\ encrypted = <<Concat(begin, codes["enc"])>>

\* An unknown character after a known one: nothing of the stream is written.
UnknownSymbolWitness ==
    /\ Encoded
    /\ Len(begin) > 1
    /\ begin[1] \in DOMAIN codes["enc"]
    /\ begin[Len(begin)] \notin DOMAIN codes["enc"]
    /\ pc["enc"] = "fatal"
    /\ encrypted = <<>>

\* ---------------------------------------------------------------------- C7
\* C7: leaf count.  The working collection shrinks by one at each merge; the
\* returned tree of a table of n >= 1 distinct characters has n leaves, one
\* per distinct character, and n - 1 internal nodes, after n - 1 merges.
LeafCount ==
    \A p \in Prog :
        /\ pc[p] = "loop" => Len(nodes[p]) + merges[p] = Distinct(p)
        /\ Returned(p) =>
              LET leaves == LeafChars(root[p]) IN
              /\ Distinct(p) >= 1
              /\ Len(leaves) = Distinct(p)
              /\ {leaves[i] : i \in 1..Len(leaves)} = DOMAIN frequencies[p]
              /\ InternalNodes(root[p]) = Distinct(p) - 1
              /\ merges[p] = Distinct(p) - 1

LeafCountWitness ==
    /\ Returned("enc")
    /\ Distinct("enc") = NumChars
    /\ merges["enc"] = NumChars - 1

\* ---------------------------------------------------------------------- C8
\* C8: weight invariant.  Throughout BuildHuffmanTree every internal node
\* weighs the sum of its children and the collection weighs the sum of the
\* input frequencies; so does the returned root.
WeightInvariant ==
    \A p \in Prog :
        /\ pc[p] = "loop" =>
              /\ \A i \in 1..Len(nodes[p]) : WeightsAdd(nodes[p][i])
              /\ SumFreq(nodes[p]) = Total(frequencies[p])
        /\ Returned(p) =>
              /\ WeightsAdd(root[p])
              /\ root[p].Freq = Total(frequencies[p])

WeightInvariantWitness ==
    /\ Returned("enc")
    /\ root["enc"].IsParent
    /\ root["enc"].Left.IsParent \/ root["enc"].Right.IsParent
    /\ root["enc"].Freq = Len(book)

\* ---------------------------------------------------------------------- C9
\* C9: greedy merge step.  After an iteration of the loop no node of the
\* collection is lighter than either node the iteration removed, the parent
\* of the two (first as Left, second as Right, weighing their sum) is in the
\* collection, the collection is in ascending order of weight, and Left is
\* no heavier than Right at every internal node.
GreedyMerge ==
    \A p \in Prog :
        merges[p] > 0 =>
            LET left == removed[p][1]
                right == removed[p][2]
                coll == nodes[p]
            IN  /\ \A i \in 1..Len(coll) :
                      /\ coll[i].Freq >= left.Freq
                      /\ coll[i].Freq >= right.Freq
                      /\ LeftLighter(coll[i])
                /\ \E i \in 1..Len(coll) :
                      /\ coll[i].IsParent
                      /\ coll[i].Left = left
                      /\ coll[i].Right = right
                      /\ coll[i].Freq = left.Freq + right.Freq
                /\ \A i \in 1..(Len(coll) - 1) : coll[i].Freq <= coll[i + 1].Freq

\* A merge that left a lone leaf heavier than the pair removed.
GreedyMergeWitness ==
    /\ merges["enc"] = 1
    /\ Len(nodes["enc"]) = 2
    /\ \E i \in 1..2 :
          ~nodes["enc"][i].IsParent /\ nodes["enc"][i].Freq > removed["enc"][2].Freq

\* --------------------------------------------------------------------- C10
\* C10: a single distinct character.  When book.txt holds one distinct
\* character and both programs end without an error, decrypted.txt is the
\* text that was encoded.
SingleCharRoundTrip ==
    (/\ pc["dec"] = "done"
     /\ ~truncated
     /\ begin = book
     /\ Distinct("enc") = 1)
    => decrypted = <<book>>

=============================================================================
